---- MODULE Spec2Model ----
(***************************************************************************)
(* Model of readJson (packages/node-fs/src/read-json.ts): the typed JSON   *)
(* loader that logs the call, reads a file in blocking or non-blocking     *)
(* mode and parses its text as JSON.                                       *)
(*                                                                         *)
(* The collaborators imported by read-json.ts (logger from ./common,       *)
(* parseJson from ./json, readFile/readFileSync from ./read-file) are      *)
(* modelled from their documented interfaces.                              *)
(***************************************************************************)
EXTENDS Integers, Sequences, FiniteSets, TLC

(* ------------------------------ bounds --------------------------------- *)
MaxCalls == 2        \* number of readJson calls in one run
MaxContentLen == 2   \* longest file text, in characters

(* ------------------------- program constants --------------------------- *)
SliceLen == 32       \* path.slice(-32)

(* ------------------------------ inputs --------------------------------- *)
\* A path is a sequence of characters; the character at position i is
\* i % 10, so that every suffix and prefix of a path is distinguishable.
MkPath(n) == [i \in 1..n |-> i % 10]

\* path lengths: one shorter and one longer than the slice
PathLens == {SliceLen - 1, SliceLen + 1}

Paths == {MkPath(n) : n \in PathLens}

\* The characters of a file text: enough for the JSON values 0, [], [0], ...
Chars == {"[", "]", "0"}

RECURSIVE TextsOfLen(_)
TextsOfLen(n) ==
  IF n = 0 THEN {<<>>}
  ELSE {Append(t, ch) : t \in TextsOfLen(n - 1), ch \in Chars}

Texts == UNION {TextsOfLen(n) : n \in 0..MaxContentLen}

\* the second argument of the call: omitted, true or false
Modes == {"omitted", "true", "false"}

Calls == 1..MaxCalls

(* --------------------------- value domains ----------------------------- *)
NoValue == [type |-> "none", items |-> <<>>]

NoError == [kind |-> "none", code |-> "", path |-> <<>>]

Missing == [exists |-> FALSE, text |-> <<>>]

File(t) == [exists |-> TRUE, text |-> t]

\* fs      : the disk, path -> file (never modified during a run)
\* hookSet : whether logger.logMethodArgs is defined
\* calls   : per call, its arguments, position, result channel, outcome and
\*           the sequence of events it went through
\* log     : the records the logging hook received, each with its call
VARIABLES fs, hookSet, calls, log

vars == <<fs, hookSet, calls, log>>

(* ----------------------- JSON-parse primitive -------------------------- *)
ParseFail == [ok |-> FALSE, val |-> NoValue, next |-> 0]

RECURSIVE ParseValue(_, _)
ParseValue(t, i) ==
  IF i > Len(t) THEN ParseFail
  ELSE IF t[i] = "0"
    THEN [ok |-> TRUE, val |-> [type |-> "number", items |-> <<>>], next |-> i + 1]
  ELSE IF t[i] = "["
    THEN IF i + 1 <= Len(t) /\ t[i + 1] = "]"
           THEN [ok |-> TRUE, val |-> [type |-> "array", items |-> <<>>], next |-> i + 2]
           ELSE LET r == ParseValue(t, i + 1) IN
                IF r.ok /\ r.next <= Len(t) /\ t[r.next] = "]"
                  THEN [ok |-> TRUE,
                        val |-> [type |-> "array", items |-> <<r.val>>],
                        next |-> r.next + 1]
                  ELSE ParseFail
  ELSE ParseFail

\* parseJson<T>(text): the structural value, or a parse failure
parseJson(t) ==
  LET r == ParseValue(t, 1) IN
  IF r.ok /\ r.next = Len(t) + 1
    THEN [ok |-> TRUE, val |-> r.val, err |-> NoError]
    ELSE [ok |-> FALSE, val |-> NoValue,
          err |-> [kind |-> "parse", code |-> "invalid_json", path |-> <<>>]]

(* -------------------------- read primitives ---------------------------- *)
\* the failure the read primitive signals for a path with no file
ReadError(p) == [kind |-> "read", code |-> "ENOENT", path |-> p]

\* readFileSync(path): the text of the file, or a raised read failure
readFileSync(p) ==
  IF p \in DOMAIN fs /\ fs[p].exists
    THEN [ok |-> TRUE, text |-> fs[p].text, err |-> NoError]
    ELSE [ok |-> FALSE, text |-> <<>>, err |-> ReadError(p)]

\* readFile(path): what the promise of the non-blocking read settles to
readFile(p) ==
  IF p \in DOMAIN fs /\ fs[p].exists
    THEN [ok |-> TRUE, text |-> fs[p].text, err |-> NoError]
    ELSE [ok |-> FALSE, text |-> <<>>, err |-> ReadError(p)]

(* ------------------------------ logger --------------------------------- *)
\* String.prototype.slice(start) with one argument
Slice(s, start) ==
  LET len == Len(s)
      from == IF start < 0
                THEN (IF len + start > 0 THEN len + start ELSE 0)
                ELSE (IF start < len THEN start ELSE len)
  IN SubSeq(s, from + 1, len)

\* variant: the default of the second parameter is true
SyncArgDefaultTrue(mode) == IF mode = "omitted" THEN TRUE ELSE mode = "true"

\* the default of the second parameter: sync = false
SyncArg(mode) == IF mode = "omitted" THEN FALSE ELSE mode = "true"

\* variant: path.slice(0, 32), the head of the path instead of its tail
LogArgsHead(path, sync) ==
  [method |-> "readJson",
   path |-> SubSeq(path, 1, IF Len(path) < SliceLen THEN Len(path) ELSE SliceLen),
   sync |-> sync]

\* the arguments of the trace record: 'readJson', {path: path.slice(-32), sync}
LogArgs(path, sync) ==
  [method |-> "readJson", path |-> Slice(path, -SliceLen), sync |-> sync]

\* variant: logger.logMethodArgs(...) without the optional call
LogStepRequired(path, sync) ==
  IF hookSet
    THEN [threw |-> FALSE, recs |-> <<LogArgs(path, sync)>>, trace |-> <<"log">>]
    ELSE [threw |-> TRUE, recs |-> <<>>, trace |-> <<>>]

\* logger.logMethodArgs?.(...): the records emitted, and whether the
\* statement raised
LogStep(path, sync) ==
  IF hookSet
    THEN [threw |-> FALSE, recs |-> <<LogArgs(path, sync)>>, trace |-> <<"log">>]
    ELSE [threw |-> FALSE, recs |-> <<>>, trace |-> <<>>]

(* --------------------------- the two branches -------------------------- *)
NoRead == [ok |-> FALSE, text |-> <<>>, err |-> NoError]

\* variant: the read failure is caught and a new error is raised in its place
SyncBranchWrapped(path) ==
  LET r == readFileSync(path) IN
  IF ~r.ok
    THEN [pc |-> "done", channel |-> "direct", status |-> "thrown",
          val |-> NoValue,
          err |-> [kind |-> "read", code |-> "read_failed", path |-> <<>>],
          trace |-> <<"readFileSync", "readErr">>]
    ELSE LET j == parseJson(r.text) IN
         IF j.ok
           THEN [pc |-> "done", channel |-> "direct", status |-> "returned",
                 val |-> j.val, err |-> NoError,
                 trace |-> <<"readFileSync", "readOk", "parseJson", "parseOk">>]
           ELSE [pc |-> "done", channel |-> "direct", status |-> "thrown",
                 val |-> NoValue, err |-> j.err,
                 trace |-> <<"readFileSync", "readOk", "parseJson", "parseErr">>]

\* variant: the blocking branch catches the parse failure and returns {}
SyncBranchDefault(path) ==
  LET r == readFileSync(path) IN
  IF ~r.ok
    THEN [pc |-> "done", channel |-> "direct", status |-> "thrown",
          val |-> NoValue, err |-> r.err,
          trace |-> <<"readFileSync", "readErr">>]
    ELSE LET j == parseJson(r.text) IN
         IF j.ok
           THEN [pc |-> "done", channel |-> "direct", status |-> "returned",
                 val |-> j.val, err |-> NoError,
                 trace |-> <<"readFileSync", "readOk", "parseJson", "parseOk">>]
           ELSE [pc |-> "done", channel |-> "direct", status |-> "returned",
                 val |-> [type |-> "object", items |-> <<>>], err |-> NoError,
                 trace |-> <<"readFileSync", "readOk", "parseJson", "parseErr">>]

\* return parseJson<T>(readFileSync(path));
SyncBranch(path) ==
  LET r == readFileSync(path) IN
  IF ~r.ok
    THEN [pc |-> "done", channel |-> "direct", status |-> "thrown",
          val |-> NoValue, err |-> r.err,
          trace |-> <<"readFileSync", "readErr">>]
    ELSE LET j == parseJson(r.text) IN
         IF j.ok
           THEN [pc |-> "done", channel |-> "direct", status |-> "returned",
                 val |-> j.val, err |-> NoError,
                 trace |-> <<"readFileSync", "readOk", "parseJson", "parseOk">>]
           ELSE [pc |-> "done", channel |-> "direct", status |-> "thrown",
                 val |-> NoValue, err |-> j.err,
                 trace |-> <<"readFileSync", "readOk", "parseJson", "parseErr">>]

\* variant: the non-blocking branch checks the file first and raises at the
\* call site when it does not exist
AsyncBranchThrow(path) ==
  IF path \in DOMAIN fs /\ fs[path].exists
    THEN [pc |-> "reading", channel |-> "promise", status |-> "pending",
          val |-> NoValue, err |-> NoError, trace |-> <<"readFile">>]
    ELSE [pc |-> "done", channel |-> "direct", status |-> "thrown",
          val |-> NoValue, err |-> ReadError(path),
          trace |-> <<"readFile", "readErr">>]

\* return readFile(path).then(...): the promise is returned while the read
\* is still in flight
AsyncBranch(path) ==
  [pc |-> "reading", channel |-> "promise", status |-> "pending",
   val |-> NoValue, err |-> NoError, trace |-> <<"readFile">>]

\* variant: the content is kept in one buffer shared by all calls
ThenInputShared(c) == calls[1].read

\* the content handed to the callback of call c: what its own read gave
ThenInput(c) == calls[c].read

\* variant: the callback parses but does not return the value
ThenReactionNoReturn(r) ==
  IF ~r.ok
    THEN [status |-> "rejected", val |-> NoValue, err |-> r.err, trace |-> <<>>]
    ELSE LET j == parseJson(r.text) IN
         IF j.ok
           THEN [status |-> "resolved", val |-> NoValue, err |-> NoError,
                 trace |-> <<"parseJson", "parseOk">>]
           ELSE [status |-> "rejected", val |-> NoValue, err |-> j.err,
                 trace |-> <<"parseJson", "parseErr">>]

\* variant: a parse failure is caught and the promise resolves to {}
ThenReactionDefault(r) ==
  IF ~r.ok
    THEN [status |-> "rejected", val |-> NoValue, err |-> r.err, trace |-> <<>>]
    ELSE LET j == parseJson(r.text) IN
         IF j.ok
           THEN [status |-> "resolved", val |-> j.val, err |-> NoError,
                 trace |-> <<"parseJson", "parseOk">>]
           ELSE [status |-> "resolved",
                 val |-> [type |-> "object", items |-> <<>>], err |-> NoError,
                 trace |-> <<"parseJson", "parseErr">>]

\* variant: a failed read is turned into empty content and parsed anyway
ThenReactionAlways(r) ==
  LET j == parseJson(IF r.ok THEN r.text ELSE <<>>) IN
  IF j.ok
    THEN [status |-> "resolved", val |-> j.val, err |-> NoError,
          trace |-> <<"parseJson", "parseOk">>]
    ELSE [status |-> "rejected", val |-> NoValue,
          err |-> IF r.ok THEN j.err ELSE r.err,
          trace |-> <<"parseJson", "parseErr">>]

\* .then((content) => parseJson<T>(content)): the promise returned by then,
\* given what the promise of readFile settled to
ThenReaction(r) ==
  IF ~r.ok
    THEN [status |-> "rejected", val |-> NoValue, err |-> r.err, trace |-> <<>>]
    ELSE LET j == parseJson(r.text) IN
         IF j.ok
           THEN [status |-> "resolved", val |-> j.val, err |-> NoError,
                 trace |-> <<"parseJson", "parseOk">>]
           ELSE [status |-> "rejected", val |-> NoValue, err |-> j.err,
                 trace |-> <<"parseJson", "parseErr">>]

(* ------------------------------ state ---------------------------------- *)
IdleCall ==
  [pc |-> "idle", path |-> <<>>, mode |-> "omitted", channel |-> "none",
   status |-> "none", val |-> NoValue, err |-> NoError, read |-> NoRead,
   trace |-> <<>>]

\* the disk is empty or holds one file with any text; every other path
\* does not exist
Disks ==
  {[p \in Paths |-> Missing]} \cup
  {[p \in Paths |-> IF p = q THEN File(t) ELSE Missing] : q \in Paths, t \in Texts}

Init ==
  /\ fs \in Disks
  /\ hookSet \in BOOLEAN
  /\ calls = [c \in Calls |-> IdleCall]
  /\ log = <<>>

(* ----------------------------- actions --------------------------------- *)
\* one call of readJson(path, sync); calls are numbered in the order made
readJson(c, path, mode) ==
  /\ calls[c].pc = "idle"
  /\ c > 1 => calls[c - 1].pc # "idle"
  /\ LET sync == SyncArg(mode)
         lg == LogStep(path, sync)
         b == IF sync = TRUE THEN SyncBranch(path) ELSE AsyncBranch(path)
     IN IF lg.threw
          THEN /\ log' = log
               /\ calls' = [calls EXCEPT ![c] =
                    [IdleCall EXCEPT !.pc = "done", !.path = path,
                       !.mode = mode, !.channel = "direct",
                       !.status = "thrown",
                       !.err = [kind |-> "type", code |-> "not_a_function",
                                path |-> <<>>]]]
          ELSE /\ log' = log \o [i \in 1..Len(lg.recs) |->
                                   [call |-> c, args |-> lg.recs[i]]]
               /\ calls' = [calls EXCEPT ![c] =
                    [pc |-> b.pc, path |-> path, mode |-> mode,
                     channel |-> b.channel, status |-> b.status,
                     val |-> b.val, err |-> b.err, read |-> NoRead,
                     trace |-> lg.trace \o b.trace]]
  /\ UNCHANGED <<fs, hookSet>>

\* the promise of readFile(path) settles
ReadSettle(c) ==
  /\ calls[c].pc = "reading"
  /\ LET r == readFile(calls[c].path) IN
     calls' = [calls EXCEPT ![c].pc = "settled", ![c].read = r,
                 ![c].trace = Append(@, IF r.ok THEN "readOk" ELSE "readErr")]
  /\ UNCHANGED <<fs, hookSet, log>>

\* the reaction registered by then runs and settles the returned promise
ThenStep(c) ==
  /\ calls[c].pc = "settled"
  /\ LET o == ThenReaction(ThenInput(c)) IN
     calls' = [calls EXCEPT ![c].pc = "done", ![c].status = o.status,
                 ![c].val = o.val, ![c].err = o.err,
                 ![c].trace = @ \o o.trace]
  /\ UNCHANGED <<fs, hookSet, log>>

Next ==
  \/ \E c \in Calls, path \in Paths, mode \in Modes : readJson(c, path, mode)
  \/ \E c \in Calls : ReadSettle(c)
  \/ \E c \in Calls : ThenStep(c)

Spec == Init /\ [][Next]_vars

TypeOK ==
  /\ hookSet \in BOOLEAN
  /\ \A c \in Calls : calls[c].pc \in {"idle", "reading", "settled", "done"}

(* ------------------------- shared vocabulary --------------------------- *)
Started(c) == calls[c].pc # "idle"

Finished(c) == calls[c].pc = "done"

Blocking(c) == calls[c].mode = "true"

Failed(c) == calls[c].status \in {"thrown", "rejected"}

Exists(p) == fs[p].exists

ValidJson(p) == fs[p].exists /\ parseJson(fs[p].text).ok

InvalidJson(p) == fs[p].exists /\ ~parseJson(fs[p].text).ok

\* what the file at p alone determines: the parsed value or the failure
FileOutcome(p) ==
  IF ~fs[p].exists THEN [val |-> NoValue, err |-> ReadError(p)]
  ELSE [val |-> parseJson(fs[p].text).val, err |-> parseJson(fs[p].text).err]

Outcome(c) == [val |-> calls[c].val, err |-> calls[c].err]

Count(seq, S) == Cardinality({i \in 1..Len(seq) : seq[i] \in S})

IsSuffix(a, b) ==
  /\ Len(a) <= Len(b)
  /\ \A i \in 1..Len(a) : a[i] = b[Len(b) - Len(a) + i]

LogOf(c) == {i \in 1..Len(log) : log[i].call = c}

(* ------------------------------ claims --------------------------------- *)
\* C1: when the file at the path exists and holds valid JSON text j, a
\* blocking call returns parse(j), a non-blocking call (mode false or
\* omitted) resolves to parse(j), and the call never fails.
C1_ValidJsonIsParsed ==
  \A c \in Calls :
    (Started(c) /\ ValidJson(calls[c].path)) =>
      /\ ~Failed(c)
      /\ Finished(c) =>
           /\ calls[c].val = parseJson(fs[calls[c].path].text).val
           /\ calls[c].err = NoError
           /\ calls[c].status = IF Blocking(c) THEN "returned" ELSE "resolved"

C1_Witness ==
  \E c1, c2 \in Calls :
    /\ Finished(c1) /\ Finished(c2)
    /\ calls[c1].mode = "true" /\ calls[c2].mode = "omitted"
    /\ calls[c1].path = calls[c2].path
    /\ ValidJson(calls[c1].path)
    /\ calls[c2].status = "resolved"
    /\ calls[c2].val.type = "array"

\* C2: when the path does not exist, both modes fail with exactly the
\* failure the read primitive signalled, never with a parse failure.
C2_MissingFileReadFailure ==
  \A c \in Calls :
    (Finished(c) /\ ~Exists(calls[c].path)) =>
      /\ calls[c].status = IF Blocking(c) THEN "thrown" ELSE "rejected"
      /\ calls[c].err = (IF Blocking(c) THEN readFileSync(calls[c].path)
                                        ELSE readFile(calls[c].path)).err
      /\ calls[c].err.kind = "read"
      /\ calls[c].val = NoValue

C2_Witness ==
  \E c1, c2 \in Calls :
    /\ Finished(c1) /\ Finished(c2)
    /\ Blocking(c1) /\ ~Blocking(c2)
    /\ ~Exists(calls[c1].path) /\ ~Exists(calls[c2].path)
    /\ calls[c1].status = "thrown" /\ calls[c2].status = "rejected"

\* C3: when the file exists but its text is not valid JSON, both modes fail
\* with the parse failure of the JSON primitive and never produce a value.
C3_InvalidJsonParseFailure ==
  \A c \in Calls :
    (Started(c) /\ InvalidJson(calls[c].path)) =>
      /\ calls[c].status \notin {"returned", "resolved"}
      /\ calls[c].val = NoValue
      /\ Finished(c) =>
           /\ calls[c].status = IF Blocking(c) THEN "thrown" ELSE "rejected"
           /\ calls[c].err = parseJson(fs[calls[c].path].text).err
           /\ calls[c].err.kind = "parse"

C3_Witness ==
  \E c1, c2 \in Calls :
    /\ Finished(c1) /\ Finished(c2)
    /\ Blocking(c1) /\ ~Blocking(c2)
    /\ InvalidJson(calls[c1].path) /\ InvalidJson(calls[c2].path)
    /\ calls[c1].status = "thrown" /\ calls[c2].status = "rejected"

\* C4: a finished blocking call and a finished non-blocking call on the same
\* path end alike: the same value returned and resolved, or the same
\* failure raised and rejected.
C4_ModeEquivalence ==
  \A c1, c2 \in Calls :
    (/\ Finished(c1) /\ Finished(c2)
     /\ Blocking(c1) /\ ~Blocking(c2)
     /\ calls[c1].path = calls[c2].path) =>
      /\ calls[c1].val = calls[c2].val
      /\ calls[c1].err = calls[c2].err
      /\ (calls[c1].status = "returned") <=> (calls[c2].status = "resolved")
      /\ (calls[c1].status = "thrown") <=> (calls[c2].status = "rejected")
      /\ calls[c1].status \in {"returned", "thrown"}

C4_Witness ==
  \E c1, c2 \in Calls :
    /\ Finished(c1) /\ Finished(c2)
    /\ Blocking(c1) /\ calls[c2].mode = "false"
    /\ calls[c1].path = calls[c2].path
    /\ InvalidJson(calls[c1].path)
    /\ calls[c1].err.kind = "parse"

\* C5: a non-blocking call always hands back a deferred result and its
\* failures are rejections of it, never raised at the call site; a blocking
\* call hands back no deferred result and its failures are raised at the
\* call site.
C5_FailureChannel ==
  \A c \in Calls :
    Started(c) =>
      IF Blocking(c)
        THEN /\ calls[c].channel = "direct"
             /\ calls[c].status \in {"returned", "thrown"}
        ELSE /\ calls[c].channel = "promise"
             /\ calls[c].status \in {"pending", "resolved", "rejected"}

C5_Witness ==
  \E c1, c2 \in Calls :
    /\ Blocking(c1) /\ calls[c1].status = "thrown"
    /\ ~Blocking(c2) /\ calls[c2].status = "rejected"
    /\ calls[c2].err.kind = "read"

\* C6: every call logs at most once; the logged path is a suffix of the
\* call's path of at most 32 characters, the whole path when that has 32 or
\* fewer; logging raises nothing and leaves the outcome what the file
\* determines.
C6_TraceRecord ==
  \A c \in Calls :
    /\ Cardinality(LogOf(c)) <= 1
    /\ \A i \in LogOf(c) :
         /\ IsSuffix(log[i].args.path, calls[c].path)
         /\ Len(log[i].args.path) <= SliceLen
         /\ Len(calls[c].path) <= SliceLen => log[i].args.path = calls[c].path
         /\ Len(calls[c].path) >= SliceLen => Len(log[i].args.path) = SliceLen
    /\ calls[c].err.kind # "type"
    /\ Finished(c) => Outcome(c) = FileOutcome(calls[c].path)

C6_Witness ==
  \E c1, c2 \in Calls :
    /\ Finished(c1) /\ Finished(c2)
    /\ Len(calls[c1].path) > SliceLen /\ Len(calls[c2].path) < SliceLen
    /\ \E i \in LogOf(c1) : Len(log[i].args.path) = SliceLen
    /\ \E i \in LogOf(c2) : log[i].args.path = calls[c2].path

\* C7: the outcome of a finished call is what the file at its own path
\* determines, whatever other calls were made and in whatever order they
\* completed; two finished calls on the same path have equal outcomes.
C7_CallsIndependent ==
  /\ \A c \in Calls : Finished(c) => Outcome(c) = FileOutcome(calls[c].path)
  /\ \A c1, c2 \in Calls :
       (Finished(c1) /\ Finished(c2) /\ calls[c1].path = calls[c2].path) =>
         Outcome(c1) = Outcome(c2)

C7_Witness ==
  \E c1, c2 \in Calls :
    /\ c1 < c2
    /\ ~Blocking(c1) /\ ~Blocking(c2)
    /\ calls[c1].path # calls[c2].path
    /\ calls[c1].pc = "settled" /\ Finished(c2)
    /\ calls[c1].read.ok /\ calls[c2].err.kind = "read"

\* C8: with the logging hook unset nothing is logged, nothing is raised for
\* the missing hook, and in both modes the outcome is the one the file
\* determines, as it is with the hook set.
C8_HookUnsetTolerated ==
  ~hookSet =>
    /\ log = <<>>
    /\ \A c \in Calls :
         /\ Count(calls[c].trace, {"log"}) = 0
         /\ calls[c].err.kind # "type"
         /\ Finished(c) =>
              /\ Outcome(c) = FileOutcome(calls[c].path)
              /\ calls[c].status \in
                   (IF Blocking(c) THEN {"returned", "thrown"}
                                   ELSE {"resolved", "rejected"})

C8_Witness ==
  /\ ~hookSet
  /\ \E c1, c2 \in Calls :
       /\ Finished(c1) /\ Finished(c2)
       /\ Blocking(c1) /\ ~Blocking(c2)
       /\ calls[c1].status = "returned" /\ calls[c2].status = "resolved"

\* C9: within one call the trace record, if any, comes before the read is
\* invoked; parse is invoked only after the read completed successfully;
\* after a failed read parse is never invoked.
C9_EventOrder ==
  \A c \in Calls :
    LET tr == calls[c].trace IN
    /\ \A i, j \in 1..Len(tr) :
         (tr[i] = "log" /\ tr[j] \in {"readFileSync", "readFile"}) => i < j
    /\ \A j \in 1..Len(tr) :
         tr[j] = "parseJson" => (j > 1 /\ tr[j - 1] = "readOk")
    /\ \A j \in 1..Len(tr) :
         tr[j] \in {"readOk", "readErr"} =>
           (j > 1 /\ tr[j - 1] \in {"readFileSync", "readFile"})
    /\ Count(tr, {"readErr"}) > 0 => Count(tr, {"parseJson"}) = 0

C9_Witness ==
  \E c1, c2 \in Calls :
    /\ calls[c1].trace = <<"log", "readFile", "readOk", "parseJson", "parseOk">>
    /\ calls[c2].trace = <<"log", "readFile", "readErr">>
    /\ Finished(c2)

\* C10: every call invokes one read primitive once, the blocking one exactly
\* when the mode argument is true and the non-blocking one otherwise, also
\* when the argument is omitted; parse is invoked at most once; after a
\* failure no primitive is invoked again.
C10_DispatchNoRetry ==
  \A c \in Calls :
    LET tr == calls[c].trace IN
    Started(c) =>
      /\ Count(tr, {"readFileSync", "readFile"}) = 1
      /\ Count(tr, {"readFileSync"}) = (IF calls[c].mode = "true" THEN 1 ELSE 0)
      /\ Count(tr, {"readFile"}) = (IF calls[c].mode = "true" THEN 0 ELSE 1)
      /\ Count(tr, {"parseJson"}) <= 1
      /\ \A i, j \in 1..Len(tr) :
           (i < j /\ tr[i] \in {"readErr", "parseErr"}) =>
             tr[j] \notin {"readFileSync", "readFile", "parseJson"}

C10_Witness ==
  \E c1, c2 \in Calls :
    /\ Finished(c1) /\ Finished(c2)
    /\ calls[c1].mode = "omitted" /\ calls[c2].mode = "true"
    /\ Count(calls[c1].trace, {"readFile"}) = 1
    /\ Count(calls[c2].trace, {"readFileSync"}) = 1
    /\ Failed(c1) /\ Failed(c2)

====
